---- MODULE Spec2Model ----
(***************************************************************************)
(* Model of src/main.py: a Streamlit dashboard script.  Every user         *)
(* interaction (upload, removal of the file, navigation selection, rerun)  *)
(* re-executes the whole script top to bottom; the only state that         *)
(* survives a run is the widget state (uploaded_file, page) and the        *)
(* st.cache_data store behind load_data.                                   *)
(***************************************************************************)
EXTENDS Integers, Sequences, FiniteSets, TLC

VARIABLES uploaded_file, page, cache, parses, out, df, loaded, called, loads,
          vizDone, runs,
          name, storage, generation, xpc

vars == <<uploaded_file, page, cache, parses, out, df, loaded, called, loads,
          vizDone, runs,
          name, storage, generation, xpc>>

appVars == <<uploaded_file, page, cache, parses, out, df, loaded, called, loads,
            vizDone, runs>>

extractVars == <<name, storage, generation, xpc>>

(* ---------------------------- bounds ----------------------------------- *)

\* number of script runs explored after the first one of the session
MaxRuns == 5

\* length of the 'Product Name' texts the extraction is checked on
MaxLen == 5

(* ------------------------- text and numbers ---------------------------- *)

\* a text is a sequence of one-character strings
Digit == {"1", "2"}

Space == {" "}

Alphabet == Digit \cup Space \cup {"G", "B", "x"}

NaN == [nan |-> TRUE, val |-> 0]

Num(n) == [nan |-> FALSE, val |-> n]

DigitVal(c) == CASE c = "1" -> 1 [] c = "2" -> 2

RECURSIVE ToNumber(_)
\* decimal value of a text of digits (pd.to_numeric / astype(float))
ToNumber(t) ==
    IF t = <<>> THEN 0
    ELSE 10 * ToNumber(SubSeq(t, 1, Len(t) - 1)) + DigitVal(t[Len(t)])

SetMin(S) == CHOOSE x \in S : \A y \in S : x <= y

SetMax(S) == CHOOSE x \in S : \A y \in S : y <= x

(* ------------- df['Product Name'].str.extract('(\d+\s*GB)') ------------ *)

\* the pairs <<d, w>> for which \d{d}\s{w}GB matches s at position i
StorageMatches(s, i) ==
    {m \in (1..Len(s)) \X (0..Len(s)) :
        /\ i + m[1] + m[2] + 1 <= Len(s)
        /\ \A k \in i..(i + m[1] - 1) : s[k] \in Digit
        /\ \A k \in (i + m[1])..(i + m[1] + m[2] - 1) : s[k] \in Space
        /\ s[i + m[1] + m[2]] = "G"
        /\ s[i + m[1] + m[2] + 1] = "B"}

\* the regex without the \s* between the digits and GB
StorageRegexNoSpace(s) ==
    LET at(i) == {m \in StorageMatches(s, i) : m[2] = 0}
        starts == {i \in 1..Len(s) : at(i) # {}}
    IN  IF starts = {} THEN <<>>
        ELSE LET i == SetMin(starts)
                 d == SetMax({m[1] : m \in at(i)})
             IN  <<SubSeq(s, i, i + d + 1)>>

\* re.search: leftmost start, \d+ greedy, then \s* greedy; <<>> is no match,
\* <<t>> is the captured text t
StorageRegex(s) ==
    LET starts == {i \in 1..Len(s) : StorageMatches(s, i) # {}}
    IN  IF starts = {} THEN <<>>
        ELSE LET i == SetMin(starts)
                 d == SetMax({m[1] : m \in StorageMatches(s, i)})
                 w == SetMax({m[2] : m \in {x \in StorageMatches(s, i) : x[1] = d}})
             IN  <<SubSeq(s, i, i + d + w + 1)>>

RECURSIVE ReplaceGB(_)
\* .str.replace('GB', ''): every occurrence, left to right
ReplaceGB(t) ==
    IF t = <<>> THEN <<>>
    ELSE IF Len(t) >= 2 /\ t[1] = "G" /\ t[2] = "B"
         THEN ReplaceGB(SubSeq(t, 3, Len(t)))
         ELSE <<t[1]>> \o ReplaceGB(Tail(t))

RECURSIVE Strip(_)
\* .str.strip(): leading and trailing whitespace
Strip(t) ==
    IF t = <<>> THEN <<>>
    ELSE IF t[1] \in Space THEN Strip(Tail(t))
    ELSE IF t[Len(t)] \in Space THEN Strip(SubSeq(t, 1, Len(t) - 1))
    ELSE t

\* the value of df['Storage'] for one row
ExtractStorage(s) ==
    LET m == StorageRegex(s)
    IN  IF m = <<>> THEN NaN ELSE Num(ToNumber(Strip(ReplaceGB(m[1]))))

(* --------- df['Product Name'].str.extract('(\d+)').astype(float) ------- *)

GenerationMatches(s, i) ==
    {d \in 1..Len(s) :
        /\ i + d - 1 <= Len(s)
        /\ \A k \in i..(i + d - 1) : s[k] \in Digit}

\* the regex with a lazy quantifier, (\d+?)
GenerationRegexLazy(s) ==
    LET starts == {i \in 1..Len(s) : GenerationMatches(s, i) # {}}
    IN  IF starts = {} THEN <<>>
        ELSE LET i == SetMin(starts)
             IN  <<SubSeq(s, i, i)>>

GenerationRegex(s) ==
    LET starts == {i \in 1..Len(s) : GenerationMatches(s, i) # {}}
    IN  IF starts = {} THEN <<>>
        ELSE LET i == SetMin(starts)
                 d == SetMax(GenerationMatches(s, i))
             IN  <<SubSeq(s, i, i + d - 1)>>

\* the value of df['Generation'] for one row
ExtractGeneration(s) ==
    LET m == GenerationRegex(s)
    IN  IF m = <<>> THEN NaN ELSE Num(ToNumber(m[1]))

(* ----------------------------- tables ---------------------------------- *)

\* a DataFrame: ordered column labels, and one record (label -> value) a row
DataFrame(columns, rows) == [columns |-> columns, rows |-> rows]

\* pd.DataFrame()
EmptyDataFrame == DataFrame(<<>>, <<>>)

Labels(d) == {d.columns[i] : i \in 1..Len(d.columns)}

\* df.shape
Shape(d) == <<Len(d.rows), Len(d.columns)>>

\* an emptiness test that looks at the columns only
EmptyNoColumns(d) == Len(d.columns) = 0

\* df.empty: any axis of length 0
Empty(d) == Len(d.rows) = 0 \/ Len(d.columns) = 0

\* df[label] = values: a new label is appended, an existing one overwritten
SetColumn(d, label, values) ==
    DataFrame(IF label \in Labels(d) THEN d.columns ELSE Append(d.columns, label),
              [i \in 1..Len(d.rows) |->
                  [c \in Labels(d) \cup {label} |->
                      IF c = label THEN values[i] ELSE d.rows[i][c]]])

(* ------------------------- the uploaded files -------------------------- *)

None == "None"

Expected == <<"Product Name", "Sale Price", "Discount Percentage",
              "Star Rating", "Number Of Ratings", "Ram">>

ExpectedLabels == {Expected[i] : i \in 1..Len(Expected)}

Row(product, n) ==
    [c \in ExpectedLabels |-> IF c = "Product Name" THEN product ELSE n]

\* "x 12 112GB", "x xx", "x 2 11 GB"
NameA == <<"x", " ", "1", "2", " ", "1", "1", "2", "G", "B">>

NameB == <<"x", " ", "x", "x">>

NameC == <<"x", " ", "2", " ", "1", "1", " ", "G", "B">>

\* the files a user uploads: one that does not parse, one with a header
\* only, two with the expected columns, one with other columns
Files == {"bad.csv", "header.csv", "a.csv", "b.csv", "other.csv"}

\* the outcome of parsing the file's bytes as CSV
Content(f) ==
    CASE f = "bad.csv"    -> [ok |-> FALSE, msg |-> "No columns to parse from file"]
      [] f = "header.csv" -> [ok |-> TRUE, table |-> DataFrame(Expected, <<>>)]
      [] f = "a.csv"      -> [ok |-> TRUE, table |->
                                 DataFrame(Expected, <<Row(NameA, 1), Row(NameB, 2)>>)]
      [] f = "b.csv"      -> [ok |-> TRUE, table |->
                                 DataFrame(Expected, <<Row(NameC, 3)>>)]
      [] f = "other.csv"  -> [ok |-> TRUE, table |->
                                 DataFrame(<<"a", "b">>, <<[a |-> 1, b |-> 2]>>)]

(* ------------------------- rendered elements --------------------------- *)

El(kind, arg) == [kind |-> kind, arg |-> arg]

Pages == <<"Introduction", "Data Exploration", "Visualizations",
           "Insights and Recommendations", "Conclusion">>

PageSet == {Pages[i] : i \in 1..Len(Pages)}

UploadError == El("error", <<"Please upload a CSV file to begin the analysis.">>)

NoDataError == El("error", <<"No data available. Please check your dataset or try uploading a different file.">>)

LoadError(msg) == El("error", <<"Error loading data: ", msg>>)

Success == El("sidebar.success", <<"File uploaded successfully!">>)

Radio == El("sidebar.radio", <<"Go to">>)

Header(p) == El("header", <<p>>)

Overview(d) == El("write", <<"The dataset contains", Shape(d)[1], Shape(d)[2]>>)

Footer == <<El("markdown", <<"---">>), El("markdown", <<"Created with Streamlit">>)>>

\* what Streamlit shows for an exception that escapes the script
Exception == El("exception", <<>>)

(* ------------------- load_data behind st.cache_data -------------------- *)

\* a cache key that leaves the file out
CacheKeyNoFile(file) == "load_data"

\* st.cache_data keys an entry by the function and the hash of its argument:
\* for an uploaded file, its name and bytes
CacheKey(file) == "load_data:" \o file

\* pd.read_csv raised: the except branch, which swallows the message
OnParseErrorSilent(msg) == [df |-> EmptyDataFrame, msgs |-> <<>>]

\* pd.read_csv raised: the except branch
OnParseError(msg) == [df |-> EmptyDataFrame, msgs |-> <<LoadError(msg)>>]

\* the body of load_data: the table it returns and the elements it renders
LoadBody(file) ==
    IF Content(file).ok
    THEN [df |-> Content(file).table, msgs |-> <<>>]
    ELSE OnParseError(Content(file).msg)

\* load_data without the decorator: every call parses
load_data_uncached(file, c, n) ==
    LET r == LoadBody(file)
    IN  [df |-> r.df, msgs |-> r.msgs, cache |-> c,
         parses |-> [n EXCEPT ![file] = @ + 1]]

\* a call of the decorated load_data with cache c and parse counts n: a hit
\* returns the stored value and replays the stored elements, a miss runs
\* the body and stores both
load_data(file, c, n) ==
    LET k == CacheKey(file)
    IN  IF k \in DOMAIN c
        THEN [df |-> c[k].value, msgs |-> c[k].msgs, cache |-> c, parses |-> n]
        ELSE LET r == LoadBody(file)
             IN  [df |-> r.df, msgs |-> r.msgs,
                  cache |-> c @@ (k :> [value |-> r.df, msgs |-> r.msgs]),
                  parses |-> [n EXCEPT ![file] = @ + 1]]

\* a cache that hands out the stored object itself: changes of df reach it
AfterMutationAliased(c, k, d) ==
    IF k \in DOMAIN c THEN [c EXCEPT ![k].value = d] ELSE c

\* the cache after the run changed its df in place: st.cache_data hands each
\* caller its own copy of the stored value, so the store keeps what it held
AfterMutation(c, k, d) == c

(* ------------------------------ panels --------------------------------- *)

Min(a, b) == IF a <= b THEN a ELSE b

\* df.head()
DfHead(d) == DataFrame(d.columns, SubSeq(d.rows, 1, Min(5, Len(d.rows))))

IntroductionPanel(d) ==
    [df |-> d, raised |-> FALSE,
     out |-> <<Header("Introduction"), El("write", <<"Welcome">>),
               El("subheader", <<"Dataset Overview">>),
               El("dataframe", <<DfHead(d)>>), Overview(d)>>]

\* the correlation element is the heatmap or the 'Not enough numeric
\* columns' text
DataExplorationPanel(d) ==
    [df |-> d, raised |-> FALSE,
     out |-> <<Header("Data Exploration"),
               El("subheader", <<"Data Types and Basic Statistics">>),
               El("write", <<"dtypes">>), El("write", <<"describe">>),
               El("subheader", <<"Missing Values">>),
               El("write", <<"missing">>), El("write", <<"percentage">>),
               El("subheader", <<"Correlation Analysis">>),
               El("correlation", <<>>)>>]

\* the charts of the Visualizations panel in order: the columns each reads
\* and the column it derives first
Charts ==
    <<[title |-> "Price Distribution of iPhones", derive |-> "",
       needs |-> {"Sale Price"}],
      [title |-> "Discount Percentage vs. Star Rating", derive |-> "",
       needs |-> {"Discount Percentage", "Star Rating", "Product Name",
                  "Number Of Ratings", "Sale Price"}],
      [title |-> "Top 10 Most Rated iPhones", derive |-> "",
       needs |-> {"Number Of Ratings", "Product Name", "Star Rating"}],
      [title |-> "RAM vs. Price", derive |-> "",
       needs |-> {"Ram", "Sale Price", "Product Name", "Number Of Ratings",
                  "Star Rating"}],
      [title |-> "Price Comparison by Storage Capacity", derive |-> "Storage",
       needs |-> {"Product Name", "Sale Price"}],
      [title |-> "Star Rating vs. Number of Ratings", derive |-> "",
       needs |-> {"Number Of Ratings", "Star Rating", "Product Name",
                  "Sale Price", "Discount Percentage"}],
      [title |-> "Discount Percentage Distribution", derive |-> "",
       needs |-> {"Discount Percentage"}],
      [title |-> "Price Trends Across iPhone Generations", derive |-> "Generation",
       needs |-> {"Product Name", "Sale Price"}],
      [title |-> "Feature Comparison: RAM, Storage, Price", derive |-> "",
       needs |-> {"Ram", "Storage", "Sale Price", "Product Name",
                  "Number Of Ratings", "Star Rating", "Discount Percentage"}],
      [title |-> "Word Cloud of iPhone Models", derive |-> "",
       needs |-> {"Product Name"}]>>

\* the assignment of a derived column
Derive(d, label) ==
    CASE label = "Storage" ->
            SetColumn(d, "Storage",
                [i \in 1..Len(d.rows) |-> ExtractStorage(d.rows[i]["Product Name"])])
      [] label = "Generation" ->
            SetColumn(d, "Generation",
                [i \in 1..Len(d.rows) |-> ExtractGeneration(d.rows[i]["Product Name"])])
      [] OTHER -> d

RECURSIVE RenderCharts(_, _, _)
\* charts i.. of the panel on table d after output o; a chart that reads a
\* missing column raises, which ends the run
RenderCharts(d, i, o) ==
    IF i > Len(Charts) THEN [df |-> d, out |-> o, raised |-> FALSE]
    ELSE LET c == Charts[i]
             o1 == Append(o, El("subheader", <<c.title>>))
         IN  IF ~(c.needs \subseteq Labels(d))
             THEN [df |-> d, out |-> Append(o1, Exception), raised |-> TRUE]
             ELSE RenderCharts(Derive(d, c.derive), i + 1,
                               Append(o1, El("chart", <<c.title>>)))

VisualizationsPanel(d) == RenderCharts(d, 1, <<Header("Visualizations")>>)

InsightsPanel(d) ==
    [df |-> d, raised |-> FALSE,
     out |-> <<Header("Insights and Recommendations"), El("write", <<"Insights">>)>>]

ConclusionPanel(d) ==
    [df |-> d, raised |-> FALSE,
     out |-> <<Header("Conclusion"), El("write", <<"Conclusion">>)>>]

\* a dispatch that lost the Insights branch
DispatchNoInsights(p, d) ==
    IF p = "Introduction" THEN IntroductionPanel(d)
    ELSE IF p = "Data Exploration" THEN DataExplorationPanel(d)
    ELSE IF p = "Visualizations" THEN VisualizationsPanel(d)
    ELSE ConclusionPanel(d)

\* the if / elif chain over page
Dispatch(p, d) ==
    IF p = "Introduction" THEN IntroductionPanel(d)
    ELSE IF p = "Data Exploration" THEN DataExplorationPanel(d)
    ELSE IF p = "Visualizations" THEN VisualizationsPanel(d)
    ELSE IF p = "Insights and Recommendations" THEN InsightsPanel(d)
    ELSE ConclusionPanel(d)

(* --------------------------- one script run ---------------------------- *)

NoDf == [columns |-> <<>>, rows |-> <<>>, unbound |-> TRUE]

Sidebar == <<El("sidebar.title", <<"Navigation">>), El("sidebar.file_uploader", <<>>)>>

\* the else branch of the upload gate without st.stop(): the run goes on to
\* the second gate
NoFileRunNoStop(c, n) ==
    [out |-> Sidebar \o <<UploadError, NoDataError>>, df |-> NoDf, loaded |-> NoDf,
     cache |-> c, parses |-> n, called |-> FALSE, derived |-> FALSE]

\* the run with no uploaded file: the error, then st.stop()
NoFileRun(c, n) ==
    [out |-> Sidebar \o <<UploadError>>, df |-> NoDf, loaded |-> NoDf,
     cache |-> c, parses |-> n, called |-> FALSE, derived |-> FALSE]

\* the run with uploaded file f and radio value p
FileRun(f, p, c, n) ==
    LET ld == load_data(f, c, n)
        o1 == Sidebar \o ld.msgs \o (IF ~Empty(ld.df) THEN <<Success>> ELSE <<>>)
    IN  IF ~Empty(ld.df)
        THEN LET panel == Dispatch(p, ld.df)
                 o2 == o1 \o <<Radio, El("title", <<"Apple iPhones Sold in India Analysis">>)>>
                          \o panel.out
             IN  [out |-> IF panel.raised THEN o2 ELSE o2 \o Footer,
                  df |-> panel.df, loaded |-> ld.df,
                  cache |-> AfterMutation(ld.cache, CacheKey(f), panel.df),
                  parses |-> ld.parses, called |-> TRUE,
                  derived |-> panel.df # ld.df]
        ELSE [out |-> Append(o1, NoDataError), df |-> ld.df, loaded |-> ld.df,
              cache |-> ld.cache, parses |-> ld.parses, called |-> TRUE,
              derived |-> FALSE]

\* the script, top to bottom
Script(f, p, c, n) == IF f = None THEN NoFileRun(c, n) ELSE FileRun(f, p, c, n)

Shown(e) == \E i \in 1..Len(out) : out[i] = e

ShownKind(k) == \E i \in 1..Len(out) : out[i].kind = k

\* the state a run leaves behind; a radio that was not rendered loses its
\* widget state and starts from its first option again
Ran(f, p, r) ==
    /\ uploaded_file' = f
    /\ page' = IF \E i \in 1..Len(r.out) : r.out[i] = Radio THEN p ELSE Pages[1]
    /\ cache' = r.cache
    /\ parses' = r.parses
    /\ out' = r.out
    /\ df' = r.df
    /\ loaded' = r.loaded
    /\ called' = r.called
    /\ loads' = IF r.called THEN [loads EXCEPT ![f] = @ + 1] ELSE loads
    /\ vizDone' = IF r.derived THEN vizDone \cup {f} ELSE vizDone
    /\ runs' = runs + 1
    /\ UNCHANGED extractVars

(* ----------------------------- the session ----------------------------- *)

\* the user uploads a file (or replaces the uploaded one)
Upload(f) ==
    /\ runs < MaxRuns
    /\ f # uploaded_file
    /\ Ran(f, page, Script(f, page, cache, parses))

\* the user removes the uploaded file
Remove ==
    /\ runs < MaxRuns
    /\ uploaded_file # None
    /\ Ran(None, page, Script(None, page, cache, parses))

\* the user picks an option of the radio, which the last run rendered
Select(p) ==
    /\ runs < MaxRuns
    /\ Shown(Radio)
    /\ p # page
    /\ Ran(uploaded_file, p, Script(uploaded_file, p, cache, parses))

\* the user reruns the script with the widgets as they are
Rerun ==
    /\ runs < MaxRuns
    /\ Ran(uploaded_file, page, Script(uploaded_file, page, cache, parses))

NoName == <<>>

\* the first run of a session: no file, the radio at its first option
Init ==
    /\ uploaded_file = None
    /\ page = Pages[1]
    /\ cache = <<>>
    /\ parses = [f \in Files |-> 0]
    /\ out = NoFileRun(<<>>, [f \in Files |-> 0]).out
    /\ df = NoDf
    /\ loaded = NoDf
    /\ called = FALSE
    /\ loads = [f \in Files |-> 0]
    /\ vizDone = {}
    /\ runs = 0
    /\ name = NoName
    /\ storage = NaN
    /\ generation = NaN
    /\ xpc = "idle"

Next ==
    \/ \E f \in Files : Upload(f)
    \/ Remove
    \/ \E p \in PageSet : Select(p)
    \/ Rerun

Spec == Init /\ [][Next]_vars

(* ------------------- the derived columns on any text ------------------- *)

RECURSIVE Texts(_)
Texts(n) ==
    IF n = 0 THEN {<<>>}
    ELSE LET shorter == Texts(n - 1)
         IN  shorter \cup {Append(t, c) : t \in shorter, c \in Alphabet}

InitExtract ==
    /\ uploaded_file = None
    /\ page = Pages[1]
    /\ cache = <<>>
    /\ parses = [f \in Files |-> 0]
    /\ out = NoFileRun(<<>>, [f \in Files |-> 0]).out
    /\ df = NoDf
    /\ loaded = NoDf
    /\ called = FALSE
    /\ loads = [f \in Files |-> 0]
    /\ vizDone = {}
    /\ runs = 0
    /\ name \in Texts(MaxLen)
    /\ storage = NaN
    /\ generation = NaN
    /\ xpc = "row"

\* the two assignments of the panel on a row whose 'Product Name' is name
ExtractRow ==
    /\ xpc = "row"
    /\ storage' = ExtractStorage(name)
    /\ generation' = ExtractGeneration(name)
    /\ xpc' = "done"
    /\ UNCHANGED <<name, appVars>>

NextExtract == ExtractRow

SpecExtract == InitExtract /\ [][NextExtract]_vars

(* ------------------------------ claims --------------------------------- *)

\* what a correct parse of file f yields
Parsed(f) == IF Content(f).ok THEN Content(f).table ELSE EmptyDataFrame

PanelShown == ShownKind("header")

FooterShown == \E i \in 1..Len(out) : out[i] \in {Footer[1], Footer[2]}

FooterLast ==
    /\ Len(out) >= 2
    /\ out[Len(out) - 1] = Footer[1]
    /\ out[Len(out)] = Footer[2]

ErrorShown == ShownKind("error") \/ ShownKind("exception")

\* C1: in a run with no uploaded file the 'please upload' error is the last
\* thing rendered: no navigation selector, no panel, no footer, no 'No data
\* available' message, and load_data is not invoked.
C1_NoFileHalts ==
    uploaded_file = None =>
        /\ out[Len(out)] = UploadError
        /\ ~Shown(Radio)
        /\ ~PanelShown
        /\ ~FooterShown
        /\ ~Shown(NoDataError)
        /\ ~called

\* a run without a file after a file had been loaded in the session
C1_Witness ==
    /\ uploaded_file = None
    /\ runs >= 2
    /\ DOMAIN cache # {}
    /\ Shown(UploadError)

\* C2: for an uploaded file whose parse raises, the run shows the parse
\* error message, load_data returns the empty table, and the run ends on
\* the 'No data available' path with no selector and no panel.
C2_ParseErrorHalts ==
    (uploaded_file # None /\ ~Content(uploaded_file).ok) =>
        /\ called
        /\ Shown(LoadError(Content(uploaded_file).msg))
        /\ loaded = EmptyDataFrame
        /\ out[Len(out)] = NoDataError
        /\ ~Shown(Radio)
        /\ ~Shown(Success)
        /\ ~PanelShown
        /\ ~FooterShown

\* the failing file, on its first run and on a later one
C2_Witness ==
    /\ uploaded_file = "bad.csv"
    /\ loads["bad.csv"] >= 2
    /\ Shown(LoadError(Content("bad.csv").msg))

\* C3: for an uploaded file that parses to zero data rows, the run shows
\* 'No data available', no 'File uploaded successfully', and no panel.
C3_NoRowsHalts ==
    (/\ uploaded_file # None
     /\ Content(uploaded_file).ok
     /\ Len(Content(uploaded_file).table.rows) = 0) =>
        /\ out[Len(out)] = NoDataError
        /\ ~Shown(Success)
        /\ ~Shown(Radio)
        /\ ~PanelShown
        /\ ~FooterShown

C3_Witness ==
    /\ uploaded_file = "header.csv"
    /\ loaded = DataFrame(Expected, <<>>)
    /\ Shown(NoDataError)

\* C4: while the uploaded file stays the same, a run invokes load_data,
\* parses nothing and gets the table the run before got; no file is parsed
\* twice, whether its parse succeeded or failed.
C4_ParsedOnce ==
    /\ [](\A f \in Files : parses[f] <= 1 /\ (loads[f] >= 1 => parses[f] = 1))
    /\ [][(uploaded_file' = uploaded_file /\ uploaded_file # None) =>
              (called' /\ parses' = parses /\ loaded' = loaded)]_vars

\* a failed and a successful parse, each followed by a later call
C4_Witness ==
    /\ loads["bad.csv"] >= 2
    /\ parses["bad.csv"] = 1
    /\ loads["a.csv"] >= 2
    /\ parses["a.csv"] = 1

IsOverview(e) ==
    /\ e.kind = "write"
    /\ Len(e.arg) = 3
    /\ e.arg[1] = "The dataset contains"

\* C5: every rendering of the Introduction panel reports the row and column
\* counts of the source file, also after Visualizations was rendered for it.
C5_OverviewCounts ==
    Shown(Header("Introduction")) =>
        /\ \E i \in 1..Len(out) : IsOverview(out[i])
        /\ \A i \in 1..Len(out) :
              IsOverview(out[i]) =>
                  /\ out[i].arg[2] = Len(Content(uploaded_file).table.rows)
                  /\ out[i].arg[3] = Len(Content(uploaded_file).table.columns)

\* the Introduction of a file whose Visualizations panel derived the columns
C5_Witness ==
    /\ uploaded_file = "a.csv"
    /\ "a.csv" \in vizDone
    /\ Shown(Header("Introduction"))
    /\ Shown(El("write", <<"The dataset contains", 2, 6>>))

\* C6: no run changes an entry of the cache: its columns and values stay
\* what they were when it was stored.
C6_CacheReadOnly ==
    [][\A k \in DOMAIN cache : k \in DOMAIN cache' /\ cache'[k] = cache[k]]_vars

\* a run that derived the two columns in its df while the cached table has
\* neither
C6_Witness ==
    /\ uploaded_file \in vizDone
    /\ {"Storage", "Generation"} \subseteq Labels(df)
    /\ CacheKey(uploaded_file) \in DOMAIN cache
    /\ Labels(cache[CacheKey(uploaded_file)].value) \cap {"Storage", "Generation"} = {}

\* the table a run works on comes from the uploaded file alone
UsesUploaded ==
    uploaded_file # None =>
        /\ loaded = Parsed(uploaded_file)
        /\ parses[uploaded_file] = 1
        /\ \/ df = loaded
           \/ df = Derive(Derive(loaded, "Storage"), "Generation")
        /\ \A i \in 1..Len(out) : IsOverview(out[i]) => out[i] = Overview(loaded)

\* C7 as stated: a file uploaded in place of another one is used in its run
\* and is parsed afresh in that run.
C7_Original ==
    /\ []UsesUploaded
    /\ [][(/\ uploaded_file' # uploaded_file
           /\ uploaded_file # None
           /\ uploaded_file' # None) =>
              parses'[uploaded_file'] = parses[uploaded_file'] + 1]_vars

\* C7 amended: every run uses the table of the file uploaded now; the
\* upload is parsed in its run unless the same file was loaded before, and
\* then the memoized table, equal to its parse, is used without a parse.
C7_UsesNewFile ==
    /\ []UsesUploaded
    /\ [][(uploaded_file' # uploaded_file /\ uploaded_file' # None) =>
              parses'[uploaded_file'] =
                  IF loads[uploaded_file'] = 0 THEN parses[uploaded_file'] + 1
                  ELSE parses[uploaded_file']]_vars

\* b.csv uploaded after a.csv had been loaded
C7_Witness ==
    /\ uploaded_file = "b.csv"
    /\ CacheKey("a.csv") \in DOMAIN cache
    /\ Shown(Header("Introduction"))
    /\ loaded = Content("b.csv").table

\* the positions of text s where a maximal run of digits starts
RunStarts(s) ==
    {i \in 1..Len(s) : s[i] \in Digit /\ (i = 1 \/ s[i - 1] \notin Digit)}

\* the last position of the maximal run of digits that starts at i
RunEnd(s, i) ==
    SetMax({j \in i..Len(s) : \A k \in i..j : s[k] \in Digit})

RECURSIVE Pow10(_)
Pow10(n) == IF n = 0 THEN 1 ELSE 10 * Pow10(n - 1)

RECURSIVE SumTo(_, _, _)
\* the number the digits s[i..j] write in decimal
SumTo(s, i, j) ==
    IF i > j THEN 0 ELSE DigitVal(s[i]) * Pow10(j - i) + SumTo(s, i + 1, j)

\* s reads "GB" at position k
GBAt(s, k) == k + 1 <= Len(s) /\ s[k] = "G" /\ s[k + 1] = "B"

\* the runs of digits with "GB" right after them
RunsThenGB(s) == {i \in RunStarts(s) : GBAt(s, RunEnd(s, i) + 1)}

\* the runs of digits with "GB" after them, whitespace allowed in between
RunsSpaceGB(s) ==
    {i \in RunStarts(s) :
        \E k \in (RunEnd(s, i) + 1)..Len(s) :
            /\ GBAt(s, k)
            /\ \A m \in (RunEnd(s, i) + 1)..(k - 1) : s[m] \in Space}

FirstRunOf(s, starts) ==
    IF starts = {} THEN NaN
    ELSE Num(SumTo(s, SetMin(starts), RunEnd(s, SetMin(starts))))

\* C8 as stated: 'Storage' is the number of the first run of digits that
\* the literal "GB" follows, and NaN when there is none.
C8_Original ==
    xpc = "done" => storage = FirstRunOf(name, RunsThenGB(name))

\* C8 amended: 'Storage' is the number of the first run of digits that is
\* followed, after optional whitespace, by the literal "GB", and NaN when
\* the text has no such run.
C8_Storage ==
    xpc = "done" => storage = FirstRunOf(name, RunsSpaceGB(name))

\* "1 2GB": the run before GB is not the first run of digits
C8_Witness ==
    /\ xpc = "done"
    /\ name = <<"1", " ", "2", "G", "B">>
    /\ storage = Num(2)

\* C9: 'Generation' is the number of the leftmost maximal run of digits,
\* and NaN when the text has no digit.
C9_Generation ==
    xpc = "done" => generation = FirstRunOf(name, RunStarts(name))

\* "x12 1": the leftmost run is two digits long and another run follows
C9_Witness ==
    /\ xpc = "done"
    /\ name = <<"x", "1", "2", " ", "1">>
    /\ generation = Num(12)

HeadersShown == {i \in 1..Len(out) : out[i].kind = "header"}

OnePanel ==
    /\ Cardinality(HeadersShown) = 1
    /\ Shown(Header(page))
    /\ Shown(Radio)

\* the panel of the last run read a column the table does not have
PanelRaises ==
    /\ page = "Visualizations"
    /\ \E i \in 1..Len(Charts) : ~(Charts[i].needs \subseteq Labels(loaded) \cup {"Storage", "Generation"})

\* C10 as stated: with a non-empty table exactly one panel is rendered, the
\* selected one, the footer comes after it and no error is shown.
C10_Original ==
    (uploaded_file # None /\ ~Empty(loaded)) =>
        /\ OnePanel
        /\ FooterLast
        /\ ~ErrorShown

\* C10 amended: with a non-empty table exactly one panel is entered, the
\* selected one; when it runs to its end the footer comes after it and no
\* error is shown; when it raises (Visualizations on a table without a
\* column it reads) the exception is the last thing shown, without footer.
C10_OnePanel ==
    (uploaded_file # None /\ ~Empty(loaded)) =>
        /\ OnePanel
        /\ IF PanelRaises
           THEN out[Len(out)] = Exception /\ ~FooterShown
           ELSE FooterLast /\ ~ErrorShown

\* the fall-through branch, and a Visualizations panel that ran to its end
C10_Witness ==
    /\ uploaded_file = "a.csv"
    /\ page = "Conclusion"
    /\ Shown(Header("Conclusion"))
    /\ FooterLast
    /\ "a.csv" \in vizDone

====
